---- MODULE Spec2Model ----
(***************************************************************************)
(* Model of the cache-miss benchmark orchestration:                        *)
(*   src/ordered.py   two-parameter (M,N) sweep per loop order             *)
(*   src/old/run.py   single run and single-parameter sweep                *)
(* Python strings that the code splits, joins or parses are sequences of   *)
(* one-character strings; Python None is the empty sequence and a present  *)
(* optional value v is <<v>>; int / int (true division) is an exact        *)
(* rational [n, d] with d > 0.                                             *)
(***************************************************************************)
EXTENDS Integers, Sequences, FiniteSets, TLC

VARIABLES
    prog,       \* what runs: "ordered", "old", or "measure" (one measurement)
    cli,        \* the parsed command line, as argparse returned it
    args,       \* the namespace main works on (old/run.py fills in args.assoc)
    pc,         \* position of main / batched_execute / batch_execute
    orders,     \* ordered.py main: the loop orders to sweep
    oi,         \* ordered.py main: index of the order being swept (1-based)
    tasks,      \* the units of work of the current sweep, in generation order
    bi,         \* batched_execute: the loop variable i (offset of the batch)
    finished,   \* indices of the units of the current sweep, in completion order
    results,    \* batched_execute: results accumulated so far
    data,       \* ordered.py main: dict name -> results, as a sequence of pairs
    res,        \* batch_execute: dict key -> ratio, as a sequence of pairs
    ai,         \* batch_execute: index of the task being awaited (1-based)
    output,     \* what was printed or written: None or <<value>>
    meas        \* one measurement: configuration, diagnostic stream, outcome

vars == <<prog, cli, args, pc, orders, oi, tasks, bi, finished, results, data,
          res, ai, output, meas>>

sweepVars == <<prog, cli, args, pc, orders, oi, tasks, bi, finished, results,
               data, res, ai, output>>

(***************************************************************************)
(* Bounds of the model.                                                    *)
(***************************************************************************)
MaxPoints == 4       \* most points of a single-parameter sweep range
MaxBatch == 3        \* batch widths 1..MaxBatch of the two-parameter sweep
MaxTotalUnits == 6   \* most units (orders x points) of a two-parameter run
MaxLines == 2        \* most lines of a diagnostic stream in a measurement
ClaimedWidth == 2    \* a fixed batch width a single-parameter sweep is held to

None == <<>>
Some(v) == <<v>>

Min(a, b) == IF a <= b THEN a ELSE b

(***************************************************************************)
(* Python helpers.                                                         *)
(***************************************************************************)
\* range(start, stop, step) for step >= 1, as a sequence
RECURSIVE PyRange(_, _, _)
PyRange(start, stop, step) ==
    IF start >= stop THEN <<>>
    ELSE <<start>> \o PyRange(start + step, stop, step)

SeqToSet(s) == {s[i] : i \in 1..Len(s)}

\* d[k] = v on an insertion-ordered dict held as a sequence of <<key, value>>
DictIndex(d, k) == {i \in 1..Len(d) : d[i][1] = k}
DictSet(d, k, v) ==
    IF DictIndex(d, k) = {} THEN Append(d, <<k, v>>)
    ELSE [i \in 1..Len(d) |-> IF d[i][1] = k THEN <<k, v>> ELSE d[i]]
DictKeys(d) == [i \in 1..Len(d) |-> d[i][1]]

RECURSIVE Flatten(_)
Flatten(ss) == IF ss = <<>> THEN <<>> ELSE Head(ss) \o Flatten(Tail(ss))

\* s.split(sep) for a one-character separator
RECURSIVE SplitAt(_, _, _)
SplitAt(s, sep, cur) ==
    IF s = <<>> THEN <<cur>>
    ELSE IF Head(s) = sep THEN <<cur>> \o SplitAt(Tail(s), sep, <<>>)
    ELSE SplitAt(Tail(s), sep, Append(cur, Head(s)))
PySplit(s, sep) == SplitAt(s, sep, <<>>)

\* s.index(c): 0-based position of the first c
PyIndex(s, c) == (CHOOSE i \in 1..Len(s) : s[i] = c /\ \A j \in 1..(i - 1) : s[j] # c) - 1

(***************************************************************************)
(* ordered.py: loop orders.                                                *)
(***************************************************************************)
I_LOOP == <<"I", "_", "L", "O", "O", "P">>
J_LOOP == <<"J", "_", "L", "O", "O", "P">>
K_LOOP == <<"K", "_", "L", "O", "O", "P">>
LoopRoles == <<I_LOOP, J_LOOP, K_LOOP>>

OrderTripleRepeat(i, j) == <<LoopRoles[i + 1], LoopRoles[j + 1], LoopRoles[((i + j) % 3) + 1]>>
\* the triple order_generator yields for i # j
OrderTriple(i, j) == <<LoopRoles[i + 1], LoopRoles[j + 1], LoopRoles[(3 - i - j) + 1]>>

RECURSIVE OrderGenLoop(_, _)
OrderGenLoop(i, j) ==
    IF i >= 3 THEN <<>>
    ELSE IF j >= 3 THEN OrderGenLoop(i + 1, 0)
    ELSE (IF i # j THEN <<OrderTriple(i, j)>> ELSE <<>>) \o OrderGenLoop(i, j + 1)
order_generator == OrderGenLoop(0, 0)

order_to_name(order) == Flatten([k \in 1..Len(order) |-> PySplit(order[k], "_")[1]])

name_to_order(name) == [k \in 1..Len(name) |-> LoopRoles[PyIndex(<<"I", "J", "K">>, name[k]) + 1]]

(***************************************************************************)
(* Measurement: the simulator's diagnostic stream and its parsing.         *)
(* A line of the stream is [labels, fields]: labels is the set of label    *)
(* substrings ('D1  misses', 'D refs') the line contains and fields is     *)
(* line.split(); the fourth field is the number, written with thousands    *)
(* separators, as a sequence of characters.                                *)
(***************************************************************************)
DigitVal(c) ==
    CASE c = "0" -> 0 [] c = "1" -> 1 [] c = "2" -> 2 [] c = "3" -> 3
      [] c = "4" -> 4 [] c = "5" -> 5 [] c = "6" -> 6 [] c = "7" -> 7
      [] c = "8" -> 8 [] c = "9" -> 9

\* tok.replace(',', '')
StripCommas(tok) == SelectSeq(tok, LAMBDA c : c # ",")

\* int(s) for a string of decimal digits
RECURSIVE IntOfDigits(_, _)
IntOfDigits(s, acc) ==
    IF s = <<>> THEN acc ELSE IntOfDigits(Tail(s), 10 * acc + DigitVal(Head(s)))
PyInt(s) == IntOfDigits(s, 0)

\* int(line.split()[3].replace(',', ''))
CounterOf(line) == PyInt(StripCommas(line.fields[4]))

\* one iteration of the loop over stderr's lines
ParseLine(acc, line) ==
    IF "D1  misses" \in line.labels THEN [acc EXCEPT !.d1_miss = CounterOf(line)]
    ELSE IF "D refs" \in line.labels THEN [acc EXCEPT !.drefs = CounterOf(line)]
    ELSE acc

RECURSIVE ParseLoop(_, _)
ParseLoop(acc, stream) ==
    IF stream = <<>> THEN acc ELSE ParseLoop(ParseLine(acc, Head(stream)), Tail(stream))

\* drefs = 0; d1_miss = 0; for line in stderr.decode().split('\n'): ...
ParseStream(stream) == ParseLoop([drefs |-> 0, d1_miss |-> 0], stream)

\* exact rationals n/d with d > 0, kept in lowest terms
Abs(n) == IF n < 0 THEN 0 - n ELSE n
RECURSIVE GCD(_, _)
GCD(a, b) == IF b = 0 THEN a ELSE GCD(b, a % b)
Rat(n, d) == LET g == GCD(Abs(n), d) IN [n |-> n \div g, d |-> d \div g]
RatSub(a, b) == Rat(a.n * b.d - b.n * a.d, a.d * b.d)
RatDivInt(a, k) == Rat(a.n, a.d * k)
RatEq(a, b) == a = b
RatLeq(a, b) == a.n * b.d <= b.n * a.d

Value(r) == [kind |-> "value", n |-> r.n, d |-> r.d]
Raise(e) == [kind |-> e, n |-> 0, d |-> 1]

ColdMissFloor(a) ==
    IF a.remove_cold THEN Rat((a.size * a.size * 3) \div a.block, 1) ELSE Rat(0, 1)
\* old/run.py: cold_miss = args.size * args.size * 3 / args.block, or 0
ColdMiss(a) ==
    IF a.remove_cold THEN Rat(a.size * a.size * 3, a.block) ELSE Rat(0, 1)

MissRatioAdded(d1_miss, cold_miss, drefs) ==
    RatDivInt(Rat(d1_miss * cold_miss.d + cold_miss.n, cold_miss.d), drefs)
\* (d1_miss - cold_miss) / drefs
MissRatio(d1_miss, cold_miss, drefs) ==
    RatDivInt(RatSub(Rat(d1_miss, 1), cold_miss), drefs)

execute_return_unguarded(a, stream) ==
    LET p == ParseStream(stream)
    IN  IF p.drefs = 0 THEN Raise("ZeroDivisionError")
        ELSE Value(MissRatio(p.d1_miss, ColdMiss(a), p.drefs))
\* old/run.py execute, from the simulator's stderr to the returned value
execute_return(a, stream) ==
    LET p == ParseStream(stream)
    IN  IF p.drefs = 0 THEN Value(Rat(0, 1))
        ELSE Value(MissRatio(p.d1_miss, ColdMiss(a), p.drefs))

\* ordered.py run_valgrind, from the simulator's stderr to the returned value
run_valgrind_return(stream) ==
    LET p == ParseStream(stream)
    IN  IF p.drefs = 0 THEN Value(Rat(0, 1))
        ELSE Value(RatDivInt(Rat(p.d1_miss, 1), p.drefs))

\* the simulator's summary lines, as split() sees them
Numbers == {<<"0">>, <<"2", "4">>, <<"2", "0", "0">>, <<"1", ",", "0", "0", "0">>}
RefsLine(t) == [labels |-> {"D refs"}, fields |-> <<"==1==", "D", "refs:", t>>]
MissLine(t) == [labels |-> {"D1  misses"}, fields |-> <<"==1==", "D1", "misses:", t>>]
OtherLine(t) == [labels |-> {}, fields |-> <<"==1==", "LL", "refs:", t>>]
LineSet == UNION {{RefsLine(t), MissLine(t), OtherLine(t)} : t \in Numbers}
Streams == UNION {[1..k -> LineSet] : k \in 0..MaxLines}

\* matrix sizes and block sizes of a measurement
MeasSizes == {2, 16}
MeasBlocks == {32, 64}

NoMeas == [engine |-> "none", a |-> None, stream |-> <<>>, pc |-> "off", ret |-> None]

InitMeasure ==
    /\ \E e \in {"old", "ordered"}, n \in MeasSizes, b \in MeasBlocks, rc \in BOOLEAN :
          meas = [engine |-> e,
                  a |-> [size |-> n, block |-> b, remove_cold |-> rc],
                  stream |-> <<>>, pc |-> "simulating", ret |-> None]
    /\ prog = "measure" /\ cli = None /\ args = None /\ pc = "off"
    /\ orders = <<>> /\ oi = 0 /\ tasks = <<>> /\ bi = 0 /\ finished = <<>>
    /\ results = <<>> /\ data = <<>> /\ res = <<>> /\ ai = 0 /\ output = None

\* old/run.py execute: communicate() returns the stream, which is parsed
MeasureExecute ==
    /\ meas.pc = "simulating" /\ meas.engine = "old"
    /\ \E s \in Streams :
          meas' = [meas EXCEPT !.stream = s, !.pc = "returned",
                               !.ret = Some(execute_return(meas.a, s))]
    /\ UNCHANGED sweepVars

\* ordered.py run_valgrind: communicate() returns the stream, which is parsed
MeasureRunValgrind ==
    /\ meas.pc = "simulating" /\ meas.engine = "ordered"
    /\ \E s \in Streams :
          meas' = [meas EXCEPT !.stream = s, !.pc = "returned",
                               !.ret = Some(run_valgrind_return(s))]
    /\ UNCHANGED sweepVars

NextMeasure == MeasureExecute \/ MeasureRunValgrind

SpecMeasure == InitMeasure /\ [][NextMeasure]_vars

(***************************************************************************)
(* Units of work.  A unit is [key, a, st, d1, ret]: st is "created" (a     *)
(* coroutine object nobody awaits yet), "scheduled" (a task of the event   *)
(* loop that has not run yet), "compiling" (working directory made, source *)
(* written, compiler spawned), "simulating" (simulator spawned), "done",   *)
(* "raised" or "cancelled"; d1 is the --D1 geometry handed to the          *)
(* simulator; ret is what the unit returned or raised.                     *)
(***************************************************************************)
InFlightStates == {"compiling", "simulating"}
Started(t) == t.st \notin {"created", "scheduled"}
InFlight(ts) == {u \in 1..Len(ts) : ts[u].st \in InFlightStates}
Pending(t) == t.st \in {"scheduled", "compiling", "simulating"}

\* asyncio.run tears the loop down: every task still pending is cancelled
CancelPending(ts) ==
    [u \in 1..Len(ts) |-> IF Pending(ts[u]) THEN [ts[u] EXCEPT !.st = "cancelled"] ELSE ts[u]]

\* what the simulator writes for one unit of a sweep: a summary, or nothing
SweepStreams == {<<RefsLine(<<"1", ",", "0", "0", "0">>), MissLine(<<"2", "0", "0">>)>>, <<>>}

(***************************************************************************)
(* ordered.py: main, batched_execute, data_collect_tasks, _task.           *)
(***************************************************************************)
ALL == <<"A", "L", "L">>
OrderArgs == {ALL, <<"I", "J", "K">>, <<"K", "J", "I", ",", "I", "J", "K">>}
MRanges == {<<8, 9, 1>>, <<8, 17, 8>>}
NRanges == {<<8, 9, 1>>, <<8, 10, 1>>, <<8, 11, 1>>}
AssocArgs == {None, Some(2)}

\* main lines 146-149
ParseOrders(a) ==
    IF a.order = ALL THEN order_generator
    ELSE LET names == PySplit(a.order, ",")
         IN  [k \in 1..Len(names) |-> name_to_order(names[k])]

\* the (m, n) pairs in the order data_collect_tasks yields them
RECURSIVE CollectLoop(_, _, _)
CollectLoop(ms, ns, allNs) ==
    IF ms = <<>> THEN <<>>
    ELSE IF ns = <<>> THEN CollectLoop(Tail(ms), allNs, allNs)
    ELSE <<(<<Head(ms), Head(ns)>>)>> \o CollectLoop(ms, Tail(ns), allNs)

data_collect_tasks(order, a) ==
    LET ms == PyRange(a.m_range[1], a.m_range[2], a.m_range[3])
        ns == PyRange(a.n_range[1], a.n_range[2], a.n_range[3])
        points == CollectLoop(ms, ns, ns)
    IN  [k \in 1..Len(points) |->
            [key |-> points[k],
             a |-> [order |-> order, cache_size |-> a.cache,
                    block_size |-> a.block, assoc |-> a.assoc],
             st |-> "created", d1 |-> None, ret |-> None]]

OrderedArgs ==
    {a \in [order : OrderArgs, cache : {1024}, block : {32}, assoc : AssocArgs,
            m_range : MRanges, n_range : NRanges, batch : 1..MaxBatch] :
        Len(ParseOrders(a)) * Len(data_collect_tasks(None, a)) <= MaxTotalUnits}

\* run_valgrind lines 79-83: the geometry of --D1=
RunValgrindD1(cache_size, block_size, assoc) ==
    <<cache_size, IF assoc = None THEN cache_size \div block_size ELSE assoc[1], block_size>>

BatchIndicesRest(i, batch_size, len) == (i + 1)..len
\* the units of tasks[i:i+batch_size], as 1-based indices
BatchIndices(i, batch_size, len) == (i + 1)..Min(i + batch_size, len)

CurrentBatch == BatchIndices(bi, args.batch, Len(tasks))

GatherOutcomeCollect(ts, idx) ==
    IF \A u \in idx : ts[u].st \in {"done", "raised"} THEN "return" ELSE "pending"
\* asyncio.gather without return_exceptions: the first exception is raised
\* to the awaiter at once, else the results are returned when all are done
GatherOutcome(ts, idx) ==
    IF \E u \in idx : ts[u].st = "raised" THEN "raise"
    ELSE IF \A u \in idx : ts[u].st = "done" THEN "return"
    ELSE "pending"

GatherResultsAsCompleted(ts, idx, fin) ==
    LET f == SelectSeq(fin, LAMBDA u : u \in idx)
    IN  [k \in 1..Len(f) |-> ts[f[k]].ret[1]]
\* the list asyncio.gather returns: the results in the order of its arguments
GatherResults(ts, idx, fin) ==
    LET lo == CHOOSE u \in idx : \A v \in idx : u <= v
    IN  [k \in 1..Cardinality(idx) |-> ts[lo + k - 1].ret[1]]

InitOrdered ==
    /\ prog = "ordered"
    /\ cli \in OrderedArgs
    /\ args = cli
    /\ pc = "start"
    /\ orders = <<>> /\ oi = 0 /\ tasks = <<>> /\ bi = 0 /\ finished = <<>>
    /\ results = <<>> /\ data = <<>> /\ res = <<>> /\ ai = 0 /\ output = None
    /\ meas = NoMeas

\* main lines 144-149
OrderedMainStart ==
    /\ prog = "ordered" /\ pc = "start"
    /\ orders' = ParseOrders(args)
    /\ data' = <<>>
    /\ oi' = 1
    /\ pc' = "for_order"
    /\ UNCHANGED <<prog, cli, args, tasks, bi, finished, results, res, ai, output, meas>>

\* batched_execute lines 120-121
BatchedExecuteStart ==
    /\ prog = "ordered" /\ pc = "for_order" /\ oi <= Len(orders)
    /\ tasks' = data_collect_tasks(orders[oi], args)
    /\ results' = <<>>
    /\ bi' = 0
    /\ finished' = <<>>
    /\ pc' = "for_batch"
    /\ UNCHANGED <<prog, cli, args, orders, oi, data, res, ai, output, meas>>

\* batched_execute lines 122-123: gather wraps the batch's coroutines in tasks
GatherStart ==
    /\ prog = "ordered" /\ pc = "for_batch" /\ bi < Len(tasks)
    /\ tasks' = [u \in 1..Len(tasks) |->
                    IF u \in CurrentBatch THEN [tasks[u] EXCEPT !.st = "scheduled"]
                    ELSE tasks[u]]
    /\ finished' = <<>>
    /\ pc' = "gather"
    /\ UNCHANGED <<prog, cli, args, orders, oi, bi, results, data, res, ai, output, meas>>

\* _task line 111-112: the working directory is made and the compiler spawned
TaskCompile(u) ==
    /\ prog = "ordered" /\ tasks[u].st = "scheduled"
    /\ tasks' = [tasks EXCEPT ![u].st = "compiling"]
    /\ UNCHANGED <<prog, cli, args, pc, orders, oi, bi, finished, results, data,
                   res, ai, output, meas>>

\* _task line 113, run_valgrind lines 79-85: the simulator is spawned
TaskRunValgrind(u) ==
    /\ prog = "ordered" /\ tasks[u].st = "compiling"
    /\ tasks' = [tasks EXCEPT ![u].st = "simulating",
                              ![u].d1 = Some(RunValgrindD1(tasks[u].a.cache_size,
                                                           tasks[u].a.block_size,
                                                           tasks[u].a.assoc))]
    /\ UNCHANGED <<prog, cli, args, pc, orders, oi, bi, finished, results, data,
                   res, ai, output, meas>>

\* run_valgrind lines 86-96, _task line 114
TaskReturn(u) ==
    /\ prog = "ordered" /\ tasks[u].st = "simulating"
    /\ \E s \in SweepStreams :
          tasks' = [tasks EXCEPT ![u].st = "done",
                                 ![u].ret = Some(<<tasks[u].key[1], tasks[u].key[2],
                                                   run_valgrind_return(s)>>)]
    /\ finished' = Append(finished, u)
    /\ UNCHANGED <<prog, cli, args, pc, orders, oi, bi, results, data, res, ai,
                   output, meas>>

\* an await of the unit raises (a tool cannot be spawned, a file cannot be written)
TaskRaise(u) ==
    /\ prog = "ordered" /\ tasks[u].st \in InFlightStates
    /\ tasks' = [tasks EXCEPT ![u].st = "raised", ![u].ret = Some(Raise("OSError"))]
    /\ finished' = Append(finished, u)
    /\ UNCHANGED <<prog, cli, args, pc, orders, oi, bi, results, data, res, ai,
                   output, meas>>

\* batched_execute line 123: results += await asyncio.gather(...)
GatherReturn ==
    /\ prog = "ordered" /\ pc = "gather"
    /\ GatherOutcome(tasks, CurrentBatch) = "return"
    /\ results' = results \o GatherResults(tasks, CurrentBatch, finished)
    /\ bi' = bi + args.batch
    /\ pc' = "for_batch"
    /\ UNCHANGED <<prog, cli, args, orders, oi, tasks, finished, data, res, ai,
                   output, meas>>

\* the exception leaves gather, batched_execute and main; asyncio.run ends
GatherRaise ==
    /\ prog = "ordered" /\ pc = "gather"
    /\ GatherOutcome(tasks, CurrentBatch) = "raise"
    /\ tasks' = CancelPending(tasks)
    /\ pc' = "aborted"
    /\ UNCHANGED <<prog, cli, args, orders, oi, bi, finished, results, data, res,
                   ai, output, meas>>

\* batched_execute line 124, main lines 155-156
BatchedExecuteReturn ==
    /\ prog = "ordered" /\ pc = "for_batch" /\ bi >= Len(tasks)
    /\ data' = DictSet(data, order_to_name(orders[oi]), results)
    /\ oi' = oi + 1
    /\ pc' = "for_order"
    /\ UNCHANGED <<prog, cli, args, orders, tasks, bi, finished, results, res, ai,
                   output, meas>>

\* main lines 157-162: the data is dumped to the file or printed
OrderedMainOutput ==
    /\ prog = "ordered" /\ pc = "for_order" /\ oi > Len(orders)
    /\ output' = Some(data)
    /\ pc' = "done"
    /\ UNCHANGED <<prog, cli, args, orders, oi, tasks, bi, finished, results, data,
                   res, ai, meas>>

NextOrdered ==
    \/ OrderedMainStart
    \/ BatchedExecuteStart
    \/ GatherStart
    \/ \E u \in 1..Len(tasks) : TaskCompile(u)
    \/ \E u \in 1..Len(tasks) : TaskRunValgrind(u)
    \/ \E u \in 1..Len(tasks) : TaskReturn(u)
    \/ \E u \in 1..Len(tasks) : TaskRaise(u)
    \/ GatherReturn
    \/ GatherRaise
    \/ BatchedExecuteReturn
    \/ OrderedMainOutput

SpecOrdered == InitOrdered /\ [][NextOrdered]_vars

(***************************************************************************)
(* old/run.py: main, batch_execute, execute.                               *)
(***************************************************************************)
\* the unit of the swept value: bytes of cache, or elements of a matrix side
SweepUnit(batch) == IF batch = "cache" THEN 256 ELSE 1

OldSweepArgs ==
    {[size |-> 16, cache |-> 1024, block |-> 32, assoc |-> as, remove_cold |-> rc,
      batch |-> b, batch_start |-> s * SweepUnit(b), batch_end |-> e * SweepUnit(b),
      batch_step |-> st * SweepUnit(b)] :
        as \in AssocArgs, rc \in {FALSE}, b \in {"cache", "size"},
        s \in 1..2, e \in 1..MaxPoints, st \in 1..2}

OldSingleArgs ==
    {[size |-> 16, cache |-> c, block |-> 32, assoc |-> as, remove_cold |-> rc,
      batch |-> "", batch_start |-> 0, batch_end |-> 0, batch_step |-> 1] :
        as \in AssocArgs, rc \in BOOLEAN, c \in {256, 1024}}

OldArgs == OldSweepArgs \cup OldSingleArgs

SweepRangeExclusive(a) == PyRange(a.batch_start, a.batch_end, a.batch_step)
SweepRangeBeyond(a) == PyRange(a.batch_start, a.batch_end + 2, a.batch_step)
\* batch_execute line 105: range(args.batch_start, args.batch_end+1, args.batch_step)
SweepRange(a) == PyRange(a.batch_start, a.batch_end + 1, a.batch_step)

\* batch_execute lines 106-111
MyArgs(a, i) ==
    IF a.batch = "cache" THEN [a EXCEPT !.cache = i, !.assoc = Some(i \div a.block)]
    ELSE IF a.batch = "size" THEN [a EXCEPT !.size = i]
    ELSE a

NewTask(key, a) == [key |-> key, a |-> a, st |-> "scheduled", d1 |-> None, ret |-> None]

\* tasks[i] = ... on the dict of tasks, held in insertion order
TasksSet(ts, t) ==
    IF \E u \in 1..Len(ts) : ts[u].key = t.key
    THEN [u \in 1..Len(ts) |-> IF ts[u].key = t.key THEN t ELSE ts[u]]
    ELSE Append(ts, t)

\* batch_execute lines 105-112
RECURSIVE CreateTasksLoop(_, _, _)
CreateTasksLoop(a, is, ts) ==
    IF is = <<>> THEN ts
    ELSE CreateTasksLoop(a, Tail(is), TasksSet(ts, NewTask(Head(is), MyArgs(a, Head(is)))))

\* main lines 132-133
DefaultAssoc(a) ==
    IF a.assoc = None THEN [a EXCEPT !.assoc = Some(a.cache \div a.block)] ELSE a

\* execute line 84: the geometry of --D1=
ExecuteD1(a) == <<a.cache, a.assoc[1], a.block>>

InitOld ==
    /\ prog = "old"
    /\ cli \in OldArgs
    /\ args = cli
    /\ pc = "start"
    /\ orders = <<>> /\ oi = 0 /\ tasks = <<>> /\ bi = 0 /\ finished = <<>>
    /\ results = <<>> /\ data = <<>> /\ res = <<>> /\ ai = 0 /\ output = None
    /\ meas = NoMeas

\* main lines 131-134
OldMainStart ==
    /\ prog = "old" /\ pc = "start"
    /\ args' = DefaultAssoc(args)
    /\ pc' = IF args.batch # "" THEN "batch_execute" ELSE "execute"
    /\ UNCHANGED <<prog, cli, orders, oi, tasks, bi, finished, results, data, res,
                   ai, output, meas>>

\* batch_execute lines 103-112: one task per point, all created before any await
BatchExecuteCreate ==
    /\ prog = "old" /\ pc = "batch_execute"
    /\ tasks' = CreateTasksLoop(args, SweepRange(args), <<>>)
    /\ res' = <<>>
    /\ ai' = 1
    /\ pc' = "await"
    /\ UNCHANGED <<prog, cli, args, orders, oi, bi, finished, results, data, output, meas>>

\* main line 138: asyncio.run(execute(args))
SingleCreate ==
    /\ prog = "old" /\ pc = "execute"
    /\ tasks' = <<NewTask(0, args)>>
    /\ ai' = 1
    /\ pc' = "await_single"
    /\ UNCHANGED <<prog, cli, args, orders, oi, bi, finished, results, data, res,
                   output, meas>>

\* execute lines 76-82: directory made, source written, compiler spawned
ExecuteCompile(u) ==
    /\ prog = "old" /\ tasks[u].st = "scheduled"
    /\ tasks' = [tasks EXCEPT ![u].st = "compiling"]
    /\ UNCHANGED <<prog, cli, args, pc, orders, oi, bi, finished, results, data,
                   res, ai, output, meas>>

\* execute lines 83-85: the simulator is spawned
ExecuteSimulate(u) ==
    /\ prog = "old" /\ tasks[u].st = "compiling"
    /\ tasks' = [tasks EXCEPT ![u].st = "simulating",
                              ![u].d1 = Some(ExecuteD1(tasks[u].a))]
    /\ UNCHANGED <<prog, cli, args, pc, orders, oi, bi, finished, results, data,
                   res, ai, output, meas>>

\* execute lines 86-100
ExecuteReturn(u) ==
    /\ prog = "old" /\ tasks[u].st = "simulating"
    /\ \E s \in SweepStreams :
          tasks' = [tasks EXCEPT ![u].st = "done",
                                 ![u].ret = Some(execute_return(tasks[u].a, s))]
    /\ UNCHANGED <<prog, cli, args, pc, orders, oi, bi, finished, results, data,
                   res, ai, output, meas>>

\* an await of the unit raises (a tool cannot be spawned, a file cannot be written)
ExecuteRaise(u) ==
    /\ prog = "old" /\ tasks[u].st \in InFlightStates
    /\ tasks' = [tasks EXCEPT ![u].st = "raised", ![u].ret = Some(Raise("OSError"))]
    /\ UNCHANGED <<prog, cli, args, pc, orders, oi, bi, finished, results, data,
                   res, ai, output, meas>>

\* batch_execute lines 113-114: res[k] = await v, for a task that returned
BatchExecuteAwait ==
    /\ prog = "old" /\ pc = "await" /\ ai <= Len(tasks)
    /\ tasks[ai].st = "done"
    /\ res' = DictSet(res, tasks[ai].key, tasks[ai].ret[1])
    /\ ai' = ai + 1
    /\ UNCHANGED <<prog, cli, args, pc, orders, oi, tasks, bi, finished, results,
                   data, output, meas>>

\* the awaited task raised: the exception leaves main; asyncio.run ends
AwaitRaise ==
    /\ prog = "old" /\ pc \in {"await", "await_single"} /\ ai <= Len(tasks)
    /\ tasks[ai].st = "raised"
    /\ tasks' = CancelPending(tasks)
    /\ pc' = "aborted"
    /\ UNCHANGED <<prog, cli, args, orders, oi, bi, finished, results, data, res,
                   ai, output, meas>>

\* batch_execute line 115, main lines 135-136: the pairs k,v are printed
OldPrintSweep ==
    /\ prog = "old" /\ pc = "await" /\ ai > Len(tasks)
    /\ output' = Some(res)
    /\ pc' = "done"
    /\ UNCHANGED <<prog, cli, args, orders, oi, tasks, bi, finished, results, data,
                   res, ai, meas>>

\* main line 138: the ratio is printed
OldPrintSingle ==
    /\ prog = "old" /\ pc = "await_single" /\ tasks[1].st = "done"
    /\ output' = Some(tasks[1].ret[1])
    /\ pc' = "done"
    /\ UNCHANGED <<prog, cli, args, orders, oi, tasks, bi, finished, results, data,
                   res, ai, meas>>

NextOld ==
    \/ OldMainStart
    \/ BatchExecuteCreate
    \/ SingleCreate
    \/ \E u \in 1..Len(tasks) : ExecuteCompile(u)
    \/ \E u \in 1..Len(tasks) : ExecuteSimulate(u)
    \/ \E u \in 1..Len(tasks) : ExecuteReturn(u)
    \/ \E u \in 1..Len(tasks) : ExecuteRaise(u)
    \/ BatchExecuteAwait
    \/ AwaitRaise
    \/ OldPrintSweep
    \/ OldPrintSingle

SpecOld == InitOld /\ [][NextOld]_vars

(***************************************************************************)
(* Both sweeps: either entry point is run.                                 *)
(***************************************************************************)
Init == InitOrdered \/ InitOld

Next == NextOrdered \/ NextOld

Spec == Init /\ [][Next]_vars

(***************************************************************************)
(* Properties.                                                             *)
(***************************************************************************)
BatchOf(u) == (u - 1) \div args.batch

\* C1: in batched_execute no unit of a later batch has started (made its
\* directory, compiled or simulated) unless every unit of every earlier batch
\* is done; so the units in flight belong to one batch and are at most
\* batch_size many.
C1_BatchesDoNotOverlap ==
    prog = "ordered" =>
        /\ \A u, v \in 1..Len(tasks) :
              (BatchOf(u) < BatchOf(v) /\ Started(tasks[v])) => tasks[u].st = "done"
        /\ \A u, v \in InFlight(tasks) : BatchOf(u) = BatchOf(v)
        /\ Cardinality(InFlight(tasks)) <= args.batch

\* a full second batch is in flight
C1_Witness ==
    /\ prog = "ordered" /\ args.batch >= 2
    /\ Cardinality(InFlight(tasks)) = args.batch
    /\ \E v \in InFlight(tasks) : BatchOf(v) = 1

\* the points of range(batch_start, batch_end+1, batch_step), end inclusive
SweepPoints(a) ==
    IF a.batch_start > a.batch_end THEN {}
    ELSE {a.batch_start + k * a.batch_step :
             k \in 0..((a.batch_end - a.batch_start) \div a.batch_step)}

C3_Original ==
    \A u \in 1..Len(tasks) :
        tasks[u].d1 # None =>
            LET d1 == tasks[u].d1[1]
            IN  d1[2] = IF cli.assoc = None THEN d1[1] \div d1[3] ELSE cli.assoc[1]

\* C4: a single-parameter sweep with batch_start <= batch_end, batch_step >= 1
\* that runs to its end prints exactly one result for each start + k*step
\* <= batch_end and for no other key; cache 256..1024 step 256 gives the keys
\* 256, 512, 768, 1024.
C4_SweepKeys ==
    (/\ prog = "old" /\ pc = "done" /\ cli.batch # ""
     /\ cli.batch_start <= cli.batch_end /\ cli.batch_step >= 1) =>
        LET keys == DictKeys(output[1])
        IN  /\ SeqToSet(keys) = SweepPoints(cli)
            /\ Len(keys) = Cardinality(SweepPoints(cli))
            /\ (cli.batch_start = 256 /\ cli.batch_end = 1024 /\ cli.batch_step = 256)
                  => (SeqToSet(keys) = {256, 512, 768, 1024} /\ Len(keys) = 4)

\* the cache sweep 256..1024 step 256 has printed its four results
C4_Witness ==
    /\ prog = "old" /\ pc = "done" /\ cli.batch = "cache"
    /\ cli.batch_start = 256 /\ cli.batch_end = 1024 /\ cli.batch_step = 256
    /\ Len(output[1]) = 4

\* the number a summary line's fourth field denotes
TokenValue(t) ==
    CASE t = <<"0">> -> 0
      [] t = <<"2", "4">> -> 24
      [] t = <<"2", "0", "0">> -> 200
      [] t = <<"1", ",", "0", "0", "0">> -> 1000

RefsLines(stream) ==
    {i \in 1..Len(stream) : "D refs" \in stream[i].labels /\ "D1  misses" \notin stream[i].labels}
MissLines(stream) == {i \in 1..Len(stream) : "D1  misses" \in stream[i].labels}
MaxOf(S) == CHOOSE i \in S : \A j \in S : j <= i
\* the counter the last line of a kind reports, 0 when there is none
LastCount(stream, idx) == IF idx = {} THEN 0 ELSE TokenValue(stream[MaxOf(idx)].fields[4])
References == LastCount(meas.stream, RefsLines(meas.stream))
Misses == LastCount(meas.stream, MissLines(meas.stream))

Returned == meas.pc = "returned"
Ratio == Rat(meas.ret[1].n, meas.ret[1].d)
\* the cold-miss adjustment applies: old/run.py with --remove-cold
Adjusted == meas.engine = "old" /\ meas.a.remove_cold
ColdNumerator == 3 * meas.a.size * meas.a.size

\* C5 as stated: with 0 <= misses <= references every returned ratio r has
\* 0 <= r <= 1, the cold-miss adjustment enabled or not.
C5_Original ==
    (Returned /\ Misses <= References) =>
        /\ meas.ret[1].kind = "value"
        /\ RatLeq(Rat(0, 1), Ratio) /\ RatLeq(Ratio, Rat(1, 1))

\* C5 amended: with 0 <= misses <= references every returned ratio r has
\* r <= 1, and r >= 0 exactly when no references were counted, or the
\* cold-miss adjustment is off, or misses >= 3*n*n/b; with the adjustment on
\* and fewer misses than that the ratio is negative.
C5_RatioAtMostOne ==
    (Returned /\ Misses <= References) =>
        /\ meas.ret[1].kind = "value"
        /\ RatLeq(Ratio, Rat(1, 1))
        /\ RatLeq(Rat(0, 1), Ratio) <=>
              (References = 0 \/ ~Adjusted \/ Misses * meas.a.block >= ColdNumerator)

\* a negative ratio is returned
C5_Witness ==
    /\ Returned /\ Adjusted /\ Misses <= References /\ References > 0
    /\ ~RatLeq(Rat(0, 1), Ratio)

OneOfEach ==
    /\ Cardinality(RefsLines(meas.stream)) = 1
    /\ Cardinality(MissLines(meas.stream)) = 1

\* C6 as stated: with a reference line R > 0 and a miss line X, execute
\* returns (X - cold) / R with cold = 0 when removal is off and 3*n*n/b
\* truncated to an integer when it is on.
C6_Original ==
    (Returned /\ meas.engine = "old" /\ OneOfEach /\ References > 0) =>
        LET cold == IF meas.a.remove_cold THEN ColdNumerator \div meas.a.block ELSE 0
        IN  /\ meas.ret[1].kind = "value"
            /\ RatEq(Ratio, Rat(Misses - cold, References))

\* C6 amended: with a reference line R > 0 and a miss line X, execute returns
\* (X - cold) / R with cold = 0 when removal is off and the quotient 3*n*n/b,
\* not truncated, when it is on; R=1000, X=200, removal off gives 200/1000 and
\* n=16, b=32 gives cold = 24.
C6_ColdMissQuotient ==
    (Returned /\ meas.engine = "old" /\ OneOfEach /\ References > 0) =>
        /\ meas.ret[1].kind = "value"
        /\ meas.a.remove_cold =>
              RatEq(Ratio, Rat(Misses * meas.a.block - ColdNumerator,
                               References * meas.a.block))
        /\ ~meas.a.remove_cold => RatEq(Ratio, Rat(Misses, References))
        /\ (~meas.a.remove_cold /\ References = 1000 /\ Misses = 200)
              => RatEq(Ratio, Rat(200, 1000))
        /\ (meas.a.remove_cold /\ meas.a.size = 16 /\ meas.a.block = 32)
              => RatEq(Ratio, Rat(Misses - 24, References))

\* removal on, and the block size does not divide 3*n*n
C6_Witness ==
    /\ Returned /\ meas.engine = "old" /\ OneOfEach
    /\ References = 1000 /\ Misses = 200
    /\ meas.a.remove_cold /\ ColdNumerator % meas.a.block # 0

\* C7: when the stream has no reference-count line, or the count parsed is 0,
\* the measurement returns exactly 0 and raises nothing, whatever else the
\* stream holds and whether or not cold-miss removal is on; an empty stream
\* too.
C7_NoReferencesGivesZero ==
    (Returned /\ References = 0) => meas.ret[1] = Value(Rat(0, 1))

\* no reference line, a miss line with a count, removal on
C7_Witness ==
    /\ Returned /\ Adjusted
    /\ RefsLines(meas.stream) = {} /\ Misses > 0
    /\ meas.ret[1] = Value(Rat(0, 1))

\* the k-th (m, n) of range(*m_range) x range(*n_range), m-major then n
PointAt(a, k) ==
    LET ms == PyRange(a.m_range[1], a.m_range[2], a.m_range[3])
        ns == PyRange(a.n_range[1], a.n_range[2], a.n_range[3])
    IN  <<ms[((k - 1) \div Len(ns)) + 1], ns[((k - 1) % Len(ns)) + 1]>>
NumPoints(a) ==
    Len(PyRange(a.m_range[1], a.m_range[2], a.m_range[3]))
        * Len(PyRange(a.n_range[1], a.n_range[2], a.n_range[3]))

\* triples rs are the first Len(rs) sweep points, in generation order
InGenerationOrder(rs) ==
    /\ Len(rs) <= NumPoints(cli)
    /\ \A k \in 1..Len(rs) : <<rs[k][1], rs[k][2]>> = PointAt(cli, k)

Ascending(keys) == \A i, j \in 1..Len(keys) : i < j => keys[i] < keys[j]

\* C8: whatever order the units complete in, batched_execute's results are
\* one (m, n, ratio) per point of range(*m_range) x range(*n_range), m-major
\* then n, for every batch width, and batch_execute's mapping lists its keys
\* in ascending generation order.
C8_GenerationOrder ==
    /\ prog = "ordered" =>
          /\ InGenerationOrder(results)
          /\ \A e \in 1..Len(data) :
                InGenerationOrder(data[e][2]) /\ Len(data[e][2]) = NumPoints(cli)
    /\ prog = "old" =>
          /\ Ascending(DictKeys(res))
          /\ DictKeys(res) = [k \in 1..Len(res) |-> tasks[k].key]

\* a sweep is written whose last batch completed out of generation order
C8_Witness ==
    /\ prog = "ordered" /\ pc = "done"
    /\ Len(finished) >= 2 /\ finished[1] > finished[2]
    /\ \E e \in 1..Len(output[1]) : Len(output[1][e][2]) >= 4

Distinct(seq) == \A i, j \in 1..Len(seq) : i # j => seq[i] # seq[j]
IsPermutation(order) == Len(order) = 3 /\ SeqToSet(order) = {I_LOOP, J_LOOP, K_LOOP}

\* C9: order_generator yields exactly 6 triples, each a permutation of I_LOOP,
\* J_LOOP, K_LOOP, pairwise distinct; with order 'ALL' each is swept once and
\* the data written has 6 distinct loop-order names as keys.
C9_SixPermutations ==
    (prog = "ordered" /\ cli.order = ALL /\ pc # "start") =>
        /\ Len(orders) = 6
        /\ \A k \in 1..6 : IsPermutation(orders[k])
        /\ Distinct(orders)
        /\ Distinct(DictKeys(data))
        /\ Len(data) = oi - 1
        /\ pc = "done" =>
              /\ Len(output[1]) = 6
              /\ Distinct(DictKeys(output[1]))
              /\ SeqToSet(DictKeys(output[1])) =
                    {<<x, y, z>> : x, y, z \in {"I", "J", "K"}} \ 
                    {<<x, y, z>> \in {"I", "J", "K"} \X {"I", "J", "K"} \X {"I", "J", "K"} :
                        x = y \/ y = z \/ x = z}

\* all orders were swept and written
C9_Witness ==
    /\ prog = "ordered" /\ cli.order = ALL /\ pc = "done"
    /\ Len(output[1]) = 6

AnyRaised == \E u \in 1..Len(tasks) : tasks[u].st = "raised"

\* C10: once a unit of a two-parameter sweep has raised, nothing is ever
\* written or printed, no unit that has not started starts, and no later
\* batch or loop order begins; the sweep can only abort.
C10_RaiseAbortsSweep ==
    [][(prog = "ordered" /\ AnyRaised) =>
          /\ pc \in {"gather", "aborted"} /\ pc' \in {"gather", "aborted"}
          /\ output = None /\ output' = None
          /\ oi' = oi /\ bi' = bi /\ data' = data /\ results' = results
          /\ Len(tasks') = Len(tasks)
          /\ \A u \in 1..Len(tasks) :
                tasks[u].st = "created" => tasks'[u].st = "created"]_vars

\* the sweep aborted with a completed unit, a batch never started and an
\* order never swept
C10_Witness ==
    /\ prog = "ordered" /\ pc = "aborted" /\ output = None
    /\ \E u \in 1..Len(tasks) : tasks[u].st = "done"
    /\ \E u \in 1..Len(tasks) : tasks[u].st = "created"
    /\ oi < Len(orders)

====
